---- MODULE Spec2Model ----
(***************************************************************************)
(* A model of bot.py, the class-schedule bot: the daily scheduler loop     *)
(* (06:00 / 18:00 Tashkent), the Monday rotation of the schedule variant,  *)
(* the per-lesson reminder timers and the broadcast fan-out.               *)
(*                                                                         *)
(* Time is an integer number of minutes since Monday 00:00 (Tashkent) of   *)
(* week 0; Tashkent has no daylight saving, so local date-time arithmetic  *)
(* is plain integer arithmetic.  A text is a sequence of one-character     *)
(* strings.                                                                *)
(***************************************************************************)
EXTENDS Integers, Sequences, FiniteSets, TLC

VARIABLES
  now,          \* the Tashkent wall clock, minutes since Monday 00:00 of week 0
  started,      \* start_background has run
  pc,           \* daily_scheduler_loop: "off", "top", "sleep6", "sleep18", "dead"
  wakeAt,       \* the instant the loop's time.sleep was asked to end at
  settings,     \* the in-memory settings document
  disk_week,    \* current_week as persisted in settings.json
  disk_ok,      \* settings.json can be written (save_json does not raise)
  schedules,    \* the in-memory schedule tables: week -> day -> text
  users,        \* the list of individual subscribers
  groups,       \* the list of group chats
  unreachable,  \* recipients for which bot.send_message raises
  timers,       \* pending threading.Timer objects: <<[t, fireAt, day], ...>>
  armLog,       \* history: the countdowns armed on the current day, [day, t]
  fired,        \* history: the reminders sent on the current day
  flipLog,      \* history: the flips of current_week by the loop on the current day
  served,       \* history: the sleep target of the last wake step executed, -1 if none
  preview,      \* history: the variant the last Sunday 18:00 broadcast previewed
  toggles,      \* history: manual toggles so far
  last,         \* history: what the last operation at the current instant did
  probe,        \* input and output of a function applied on its own
  disk,         \* users.json, groups.json, schedules.json and the admins of settings.json
  steps,        \* the next-step handler registered for each chat
  jobs,         \* handlers in flight between their membership test and their append
  msgs          \* history: updates handed to a handler so far

vars == <<now, started, pc, wakeAt, settings, disk_week, disk_ok, schedules,
          users, groups, unreachable, timers, armLog, fired, flipLog, served,
          preview, toggles, last, probe, disk, steps, jobs, msgs>>

---------------------------------------------------------------------------
(* Bounds of the model. *)

\* the clock stops at 00:00 of this day (day 0 is the Monday of week 0)
LastDay == 8
\* manual toggles of the variant by an admin in one run
MaxToggles == 1
\* lines of a day text given to parse_times_from_text on its own
MaxLines == 3
\* updates (messages, membership notices) the transport hands over in one run
MaxMsgs == 3
\* handlers the transport runs at the same time
MaxJobs == 2

---------------------------------------------------------------------------
(* Clock arithmetic. *)

MinPerDay == 24 * 60

At(day, hh, mm) == day * MinPerDay + hh * 60 + mm

DayOf(n) == n \div MinPerDay

\* datetime.date.weekday(): Monday is 0
Weekday(n) == DayOf(n) % 7

Days == <<"Monday", "Tuesday", "Wednesday", "Thursday", "Friday", "Saturday", "Sunday">>

\* date.strftime("%A")
DayName(n) == Days[Weekday(n) + 1]

Weeks == {"tepa", "pastgi"}

\* a toggle that always lands on the first variant
Other_tepa(week) == "tepa"

\* "pastgi" if week == "tepa" else "tepa"
Other(week) == IF week = "tepa" THEN "pastgi" ELSE "tepa"

---------------------------------------------------------------------------
(* Characters and strings as Python orders them (by code point). *)

Digits == <<"0", "1", "2", "3", "4", "5", "6", "7", "8", "9">>

IsDigit(c) == \E i \in 1..10 : Digits[i] = c

\* int() of one decimal digit
DigitVal(c) == (CHOOSE i \in 1..10 : Digits[i] = c) - 1

\* the code point of a character of a time token: digits 48..57, then ":" 58
Ord(c) == IF IsDigit(c) THEN 48 + DigitVal(c) ELSE 58

\* str < str on two time tokens (digits and ":"): lexicographic by code point,
\* a proper prefix first
RECURSIVE StrLess(_, _)
StrLess(a, b) ==
  IF b = <<>> THEN FALSE
  ELSE IF a = <<>> THEN TRUE
  ELSE IF Ord(Head(a)) # Ord(Head(b)) THEN Ord(Head(a)) < Ord(Head(b))
  ELSE StrLess(Tail(a), Tail(b))

---------------------------------------------------------------------------
(* parse_times_from_text: re.findall, dict.fromkeys, sorted. *)

\* the length of the match of \d{1,2}:\d{2} at position i of text, 0 if none:
\* two hour digits are tried first, then one
MatchLen(text, i) ==
  LET n == Len(text)
      d(k) == k <= n /\ IsDigit(text[k])
      c(k) == k <= n /\ text[k] = ":"
  IN IF d(i) /\ d(i + 1) /\ c(i + 2) /\ d(i + 3) /\ d(i + 4) THEN 5
     ELSE IF d(i) /\ c(i + 1) /\ d(i + 2) /\ d(i + 3) THEN 4
     ELSE 0

\* re.findall(r"(\d{1,2}:\d{2})", text): leftmost matches, not overlapping
RECURSIVE FindAllFrom(_, _)
FindAllFrom(text, i) ==
  IF i > Len(text) THEN <<>>
  ELSE LET m == MatchLen(text, i)
       IN IF m = 0 THEN FindAllFrom(text, i + 1)
          ELSE <<SubSeq(text, i, i + m - 1)>> \o FindAllFrom(text, i + m)

FindAll(text) == FindAllFrom(text, 1)

\* list(dict.fromkeys(xs)): the first occurrence of each element, in order
RECURSIVE FromKeys(_)
FromKeys(xs) ==
  IF xs = <<>> THEN <<>>
  ELSE LET front == FromKeys(SubSeq(xs, 1, Len(xs) - 1))
           x == xs[Len(xs)]
       IN IF \E i \in 1..Len(front) : front[i] = x THEN front ELSE Append(front, x)

\* the place of x in a sorted list of strings
RECURSIVE Insert(_, _)
Insert(x, xs) ==
  IF xs = <<>> THEN <<x>>
  ELSE IF StrLess(x, Head(xs)) THEN <<x>> \o xs
  ELSE <<Head(xs)>> \o Insert(x, Tail(xs))

\* sorted(xs) on a list of strings
RECURSIVE Sorted(_)
Sorted(xs) == IF xs = <<>> THEN <<>> ELSE Insert(Head(xs), Sorted(Tail(xs)))

parse_times_from_text(jadval_text) == Sorted(FromKeys(FindAll(jadval_text)))

---------------------------------------------------------------------------
(* The schedule tables.  Subject names are shortened to two letters; the   *)
(* times and the line layout "HH:MM - subject" are those of the defaults.  *)

Tm(h1, h2, m1, m2) == <<h1, h2, ":", m1, m2>>

Lesson(t, subject) == t \o <<" ", "-", " ">> \o subject

NL == <<"\n">>

T0800 == Tm("0", "8", "0", "0")
T0900 == Tm("0", "9", "0", "0")
T1000 == Tm("1", "0", "0", "0")
T1030 == Tm("1", "0", "3", "0")

Day3(s1, s2, s3) ==
  Lesson(T0800, s1) \o NL \o Lesson(T0900, s2) \o NL \o Lesson(T1030, s3)

Day2(s1, s2) == Lesson(T0900, s1) \o NL \o Lesson(T1000, s2)

\* the default of load_json(SCHEDULES_FILE, ...)
DefaultSchedules ==
  [w \in Weeks |->
     IF w = "tepa"
     THEN [d \in {"Monday", "Tuesday", "Wednesday", "Thursday", "Friday", "Saturday"} |->
             CASE d = "Monday"    -> Day3(<<"M", "a">>, <<"F", "i">>, <<"I", "n">>)
               [] d = "Tuesday"   -> Day3(<<"K", "i">>, <<"B", "i">>, <<"T", "a">>)
               [] d = "Wednesday" -> Day3(<<"T", "a">>, <<"A", "d">>, <<"I", "f">>)
               [] d = "Thursday"  -> Day3(<<"F", "i">>, <<"M", "a">>, <<"I", "n">>)
               [] d = "Friday"    -> Day3(<<"A", "l">>, <<"G", "e">>, <<"M", "u">>)
               [] OTHER           -> Day2(<<"J", "i">>, <<"S", "i">>)]
     ELSE [d \in {"Monday", "Tuesday", "Wednesday", "Thursday", "Friday", "Saturday"} |->
             CASE d = "Monday"    -> Day3(<<"K", "i">>, <<"I", "n">>, <<"M", "a">>)
               [] d = "Tuesday"   -> Day3(<<"B", "i">>, <<"A", "l">>, <<"T", "a">>)
               [] d = "Wednesday" -> Day3(<<"F", "i">>, <<"M", "a">>, <<"A", "d">>)
               [] d = "Thursday"  -> Day3(<<"T", "a">>, <<"K", "i">>, <<"I", "f">>)
               [] d = "Friday"    -> Day3(<<"A", "d">>, <<"I", "f">>, <<"M", "u">>)
               [] OTHER           -> Day2(<<"S", "p">>, <<"S", "i">>)]]

\* schedules.get(week, {}).get(day, default)
GetDay(sch, week, day, default) ==
  IF week \in DOMAIN sch /\ day \in DOMAIN sch[week] THEN sch[week][day] ELSE default

---------------------------------------------------------------------------
(* pretty_schedule_text.  The rendered text is kept as a record: which of  *)
(* the three messages it is, and for a table the day, the variant named in *)
(* the header and the day text the lines are formatted from.               *)

NoText == [kind |-> "none", day |-> "", week |-> "", body |-> <<>>]

\* a test no day text fails
NotJadval_never(jadval) == FALSE

\* not jadval: None (here <<>>) or the empty string
NotJadval(jadval) == jadval = <<>>

\* a rendering that looks the day up before anything else
pretty_schedule_text_lookup(sch, day_en, week_type) ==
  LET jadval == GetDay(sch, week_type, day_en, <<>>)
  IN IF NotJadval(jadval)
     THEN IF day_en = "Sunday" THEN [NoText EXCEPT !.kind = "rest"]
          ELSE [NoText EXCEPT !.kind = "notfound", !.day = day_en]
     ELSE [kind |-> "table", day |-> day_en, week |-> week_type, body |-> jadval]

pretty_schedule_text(sch, day_en, week_type) ==
  IF day_en = "Sunday" THEN [NoText EXCEPT !.kind = "rest"]
  ELSE LET jadval == GetDay(sch, week_type, day_en, <<>>)
       IN IF NotJadval(jadval)
          THEN [NoText EXCEPT !.kind = "notfound", !.day = day_en]
          ELSE [kind |-> "table", day |-> day_en, week |-> week_type, body |-> jadval]

---------------------------------------------------------------------------
(* Delivery. *)

\* send_message_safe: bot.send_message raises for an unreachable chat and the
\* exception is caught here, so the call returns normally in either case
send_message_safe(bad, chat_id) ==
  [delivered |-> chat_id \notin bad, raised |-> FALSE]

Range(xs) == {xs[i] : i \in 1..Len(xs)}

\* for uid in list(ids): try: send_message_safe(...); sent += 1; except: pass
Fanout(bad, ids) ==
  [got  |-> {ids[i] : i \in {j \in 1..Len(ids) : send_message_safe(bad, ids[j]).delivered}},
   sent |-> Cardinality({i \in 1..Len(ids) : ~send_message_safe(bad, ids[i]).raised})]

NoReport == [users |-> 0, groups |-> 0, sent_u |-> 0, sent_g |-> 0]

\* send_daily_morning at instant n under settings s: the text, who got it, and
\* the counts of the message to ADMIN_ID
send_daily_morning(n, s, sch, us, gs, bad) ==
  LET week == s.current_week
      today_en == DayName(n)
      text == IF today_en = "Sunday" THEN [NoText EXCEPT !.kind = "rest_morning"]
              ELSE pretty_schedule_text(sch, today_en, week)
      fu == Fanout(bad, us)
      fg == Fanout(bad, gs)
  IN [text |-> text, week |-> week, day |-> today_en,
      got_u |-> fu.got, got_g |-> fg.got,
      report |-> [users |-> Len(us), groups |-> Len(gs),
                  sent_u |-> fu.sent, sent_g |-> fg.sent]]

\* a preview that ignores auto_switch_on_monday
EveningWeek_noflag(n, s) ==
  IF Weekday(n + MinPerDay) = 0 THEN Other(s.current_week) ELSE s.current_week

\* the variant send_daily_evening renders tomorrow with
EveningWeek(n, s) ==
  IF s.auto_switch_on_monday /\ Weekday(n + MinPerDay) = 0
  THEN Other(s.current_week) ELSE s.current_week

\* send_daily_evening; its message to ADMIN_ID has the two sent counts only
send_daily_evening(n, s, sch, us, gs, bad) ==
  LET tomorrow_en == DayName(n + MinPerDay)
      week_type == EveningWeek(n, s)
      text == IF tomorrow_en = "Sunday" THEN [NoText EXCEPT !.kind = "rest_evening"]
              ELSE pretty_schedule_text(sch, tomorrow_en, week_type)
      fu == Fanout(bad, us)
      fg == Fanout(bad, gs)
  IN [text |-> text, week |-> week_type, day |-> tomorrow_en,
      got_u |-> fu.got, got_g |-> fg.got,
      report |-> [NoReport EXCEPT !.sent_u = fu.sent, !.sent_g = fg.sent]]

---------------------------------------------------------------------------
(* Reminders. *)

\* hh, mm = map(int, t.split(":")) on a token of parse_times_from_text
TokHour(t) ==
  IF Len(t) = 5 THEN 10 * DigitVal(t[1]) + DigitVal(t[2]) ELSE DigitVal(t[1])

TokMin(t) == 10 * DigitVal(t[Len(t) - 1]) + DigitVal(t[Len(t)])

\* datetime.datetime(year, month, day, hh, mm) raises ValueError otherwise
TokValid(t) == TokHour(t) <= 23 /\ TokMin(t) <= 59

\* remind_dt: today at t, minus the lead
RemindAt(n, t, minutes_before) ==
  At(DayOf(n), TokHour(t), TokMin(t)) - minutes_before

\* a test that lets a countdown of zero seconds through
Due_strict(delay) == delay < 0

\* if delay <= 0: continue
Due(delay) == delay <= 0

\* an arming loop that one failing token ends: the try is around the loop
schedule_reminders_for_today_abort(n, s, sch) ==
  LET today_en == DayName(n)
      times == parse_times_from_text(GetDay(sch, s.current_week, today_en, <<>>))
      minutes_before == s.reminder_minutes_before
      bad == {i \in 1..Len(times) : ~TokValid(times[i])}
      stop == IF bad = {} THEN Len(times) + 1 ELSE CHOOSE i \in bad : \A j \in bad : i <= j
      Arms(t) == TokValid(t) /\ ~Due(RemindAt(n, t, minutes_before) - n)
      armed == SelectSeq(SubSeq(times, 1, stop - 1), Arms)
  IN IF today_en = "Sunday" THEN <<>>
     ELSE [i \in 1..Len(armed) |->
             [t |-> armed[i],
              fireAt |-> n + (RemindAt(n, armed[i], minutes_before) - n),
              day |-> DayOf(n)]]

\* the countdowns schedule_reminders_for_today starts at instant n, in order;
\* a token whose date-time cannot be built is skipped by the except clause
schedule_reminders_for_today(n, s, sch) ==
  LET today_en == DayName(n)
      week == s.current_week
      jadval_text == GetDay(sch, week, today_en, <<>>)
      times == parse_times_from_text(jadval_text)
      minutes_before == s.reminder_minutes_before
      Arms(t) == TokValid(t) /\ ~Due(RemindAt(n, t, minutes_before) - n)
      armed == SelectSeq(times, Arms)
  IN IF today_en = "Sunday" THEN <<>>
     ELSE [i \in 1..Len(armed) |->
             [t |-> armed[i],
              fireAt |-> n + (RemindAt(n, armed[i], minutes_before) - n),
              day |-> DayOf(n)]]

\* the tokens schedule_reminders_for_today extracts at instant n
TimesToday(n, s, sch) ==
  IF DayName(n) = "Sunday" THEN <<>>
  ELSE parse_times_from_text(GetDay(sch, s.current_week, DayName(n), <<>>))

\* the position of the first c in text, 0 if there is none
FirstOf(text, c) ==
  IF \E i \in 1..Len(text) : text[i] = c
  THEN CHOOSE i \in 1..Len(text) : text[i] = c /\ \A j \in 1..(i - 1) : text[j] # c
  ELSE 0

\* str.splitlines() on a text whose only line break is "\n"
RECURSIVE SplitLines(_)
SplitLines(text) ==
  IF text = <<>> THEN <<>>
  ELSE LET k == FirstOf(text, "\n")
       IN IF k = 0 THEN <<text>>
          ELSE <<SubSeq(text, 1, k - 1)>> \o SplitLines(SubSeq(text, k + 1, Len(text)))

\* sub in line
Contains(line, sub) ==
  \E i \in 1..(Len(line) - Len(sub) + 1) : SubSeq(line, i, i + Len(sub) - 1) = sub

\* str.strip() on a text whose only white space is " "
RECURSIVE Strip(_)
Strip(x) ==
  IF x = <<>> THEN x
  ELSE IF Head(x) = " " THEN Strip(Tail(x))
  ELSE IF x[Len(x)] = " " THEN Strip(SubSeq(x, 1, Len(x) - 1))
  ELSE x

\* the subject reminder_send_for_time finds for time_str in a day text: the
\* first line containing time_str decides; <<>> stands for None or ""
SubjectFor(jadval_text, time_str) ==
  LET lines == SplitLines(jadval_text)
      hits == {i \in 1..Len(lines) : Contains(lines[i], time_str)}
  IN IF hits = {} THEN <<>>
     ELSE LET line == lines[CHOOSE i \in hits : \A j \in hits : i <= j]
              k == FirstOf(line, "-")
          IN IF k = 0 THEN <<>> ELSE Strip(SubSeq(line, k + 1, Len(line)))

\* a reminder that goes to the groups as well
ReminderAudience_all(us, gs) == us \o gs

\* for uid in list(users): the chats reminder_send_for_time sends to
ReminderAudience(us, gs) == us

\* a reminder that is dropped when the day text no longer has its lesson
reminder_send_for_time_silent(time_str, n, s, sch, us, bad) ==
  LET subject == SubjectFor(GetDay(sch, s.current_week, DayName(n), <<>>), time_str)
  IN [t |-> time_str, subject |-> subject, generic |-> subject = <<>>,
      got |-> IF subject = <<>> THEN {} ELSE Fanout(bad, us).got]

\* reminder_send_for_time at instant n: the message and who of its audience us
\* got it
reminder_send_for_time(time_str, n, s, sch, us, bad) ==
  LET week == s.current_week
      today_en == DayName(n)
      subject == SubjectFor(GetDay(sch, week, today_en, <<>>), time_str)
  IN [t |-> time_str, subject |-> subject, generic |-> subject = <<>>,
      got |-> Fanout(bad, us).got]

---------------------------------------------------------------------------
(* The daily loop. *)

\* a distance to today's target, also when it has passed
seconds_until_target_today(n, hour, minute) == (At(DayOf(n), hour, minute) - n) * 60

\* seconds_until_target(hour, minute) at instant n
seconds_until_target(n, hour, minute) ==
  LET today == At(DayOf(n), hour, minute)
      target == IF n >= today THEN today + MinPerDay ELSE today
  IN (target - n) * 60

\* if sec6 <= sec18: the 06:00 branch
MorningNext(sec6, sec18) == sec6 <= sec18

\* the rotation test of the 06:00 branch
RotationDue(n, s) == s.auto_switch_on_monday /\ Weekday(n) = 0

\* a loop that sends and arms before it rotates
MorningSettings_stale(n, s) == s

\* the settings send_daily_morning and schedule_reminders_for_today read in the
\* 06:00 branch: the rotation is applied before both are called
MorningSettings(n, s) ==
  IF RotationDue(n, s) THEN [s EXCEPT !.current_week = Other(s.current_week)] ELSE s

---------------------------------------------------------------------------
(* Chats, people and permissions.  A private chat has the id of its user.  *)

\* ADMIN_ID of .env
ADMIN_ID == 100

\* the group chats: 10 is registered when the process starts, 11 is not
GroupChats == {10, 11}

\* the chats handlers are called for
Chats == {1, 2, ADMIN_ID} \cup GroupChats

\* m.chat.type
ChatType(chat_id) == IF chat_id \in GroupChats THEN "group" ELSE "private"

\* what bot.get_chat_administrators(chat_id) answers: user 3 administers group
\* 10, user 2 administers group 11; for a private chat the call raises
ChatAdministrators(chat_id) ==
  IF chat_id = 10 THEN {3} ELSE IF chat_id = 11 THEN {2} ELSE {}

\* the users who write in a chat: the owner of a private chat, the members of a
\* group
Members(chat_id) ==
  IF chat_id = 10 THEN {1, 3} ELSE IF chat_id = 11 THEN {2} ELSE {chat_id}

\* m.chat.id and m.from_user.id of the updates the transport may hand over
Writers == UNION {{[chat |-> c, from |-> u] : u \in Members(c)} : c \in Chats}

\* is_user_admin_in_chat: an exception of the call gives False
is_user_admin_in_chat(chat_id, user_id) == user_id \in ChatAdministrators(chat_id)

\* a gate that lets everyone through
user_is_allowed_as_admin_open(s, gs, chat_id, user_id) == TRUE

\* user_is_allowed_as_admin under settings s and the groups list gs
user_is_allowed_as_admin(s, gs, chat_id, user_id) ==
  IF \E i \in 1..Len(s.admins) : s.admins[i] = user_id THEN TRUE
  ELSE IF \E i \in 1..Len(gs) : gs[i] = chat_id
       THEN is_user_admin_in_chat(chat_id, user_id)
       ELSE FALSE

---------------------------------------------------------------------------
(* State. *)

NoPreview == [v |-> "", monday |-> -1]

NoLast ==
  [op |-> "none", at |-> 0, before |-> "", after |-> "", day |-> "", week |-> "",
   text |-> NoText, got_u |-> {}, got_g |-> {}, report |-> NoReport,
   lead |-> 0, times |-> <<>>, armed |-> <<>>, armWeek |-> "", target |-> -1,
   chat |-> 0, by |-> 0, input |-> <<>>, reply |-> "", sends |-> 0, added |-> 0,
   asked |-> ""]

NoProbe == [fn |-> "none", text |-> <<>>, out |-> <<>>]

\* no next-step handler is registered for a chat
NoStep == [fn |-> "none", week |-> "", day |-> ""]

\* the instants the process is started at: Sunday 05:00 and Monday 05:00
StartInstants == {At(6, 5, 0), At(7, 5, 0)}

\* the settings the process may load: every value of the three switches, both
\* variants, the default lead
SettingsDocs ==
  [current_week : Weeks, auto_switch_on_monday : BOOLEAN,
   reminder_minutes_before : {15}, send_6am : BOOLEAN, send_18pm : BOOLEAN,
   admins : {<<ADMIN_ID>>}]

\* everything but the clock and the four documents, after the module has been
\* loaded: the documents have been written back, nothing runs yet
Idle ==
  /\ started = FALSE
  /\ pc = "off"
  /\ wakeAt = -1
  /\ disk_week = settings.current_week
  /\ disk_ok = TRUE
  /\ disk = [users |-> users, groups |-> groups, schedules |-> schedules,
             admins |-> settings.admins]
  /\ steps = [c \in Chats |-> NoStep]
  /\ jobs = <<>>
  /\ msgs = 0
  /\ timers = <<>>
  /\ armLog = <<>>
  /\ fired = <<>>
  /\ flipLog = <<>>
  /\ served = -1
  /\ preview = NoPreview
  /\ toggles = 0
  /\ last = NoLast

Init ==
  /\ now \in StartInstants
  /\ settings \in SettingsDocs
  /\ users = <<1, 2>>
  /\ groups = <<10>>
  /\ unreachable = {2}
  /\ probe = NoProbe
  /\ schedules = DefaultSchedules
  /\ Idle

---------------------------------------------------------------------------
(* Operations. *)

ArmLogOf(armed) == [i \in 1..Len(armed) |-> [day |-> armed[i].day, t |-> armed[i].t]]

\* start_background: the loop thread starts, then the reminders of the current
\* day are armed
StartBackground ==
  /\ ~started
  /\ started' = TRUE
  /\ pc' = "top"
  /\ LET armed == schedule_reminders_for_today(now, settings, schedules)
     IN /\ timers' = timers \o armed
        /\ armLog' = armLog \o ArmLogOf(armed)
        /\ last' = [NoLast EXCEPT !.op = "startup", !.at = now,
                      !.before = settings.current_week, !.after = settings.current_week,
                      !.lead = settings.reminder_minutes_before,
                      !.times = TimesToday(now, settings, schedules),
                      !.armed = armed, !.armWeek = settings.current_week]
  /\ UNCHANGED <<now, wakeAt, settings, disk_week, disk_ok, schedules, users, groups,
                 unreachable, fired, flipLog, served, preview, toggles, probe>>
  /\ UNCHANGED <<disk, steps, jobs, msgs>>

\* daily_scheduler_loop, the top of an iteration: the two distances are computed
\* and time.sleep is called with the smaller
LoopTop ==
  /\ pc = "top"
  /\ LET sec6 == seconds_until_target(now, 6, 0)
         sec18 == seconds_until_target(now, 18, 0)
     IN IF MorningNext(sec6, sec18)
        THEN pc' = "sleep6" /\ wakeAt' = now + sec6 \div 60
        ELSE pc' = "sleep18" /\ wakeAt' = now + sec18 \div 60
  /\ UNCHANGED <<now, started, settings, disk_week, disk_ok, schedules, users, groups,
                 unreachable, timers, armLog, fired, flipLog, served, preview,
                 toggles, last, probe>>
  /\ UNCHANGED <<disk, steps, jobs, msgs>>

\* daily_scheduler_loop, the 06:00 branch after time.sleep has returned (at the
\* target or later).  When save_json raises, the exception leaves the loop and
\* the thread ends.
Wake6 ==
  /\ pc = "sleep6"
  /\ now >= wakeAt
  /\ served' = wakeAt
  /\ UNCHANGED <<now, started, wakeAt, disk_ok, schedules, users, groups, unreachable,
                 fired, preview, toggles, probe, steps, jobs, msgs>>
  /\ IF ~settings.send_6am
     THEN /\ pc' = "top"
          /\ last' = [NoLast EXCEPT !.op = "morning_off", !.at = now, !.target = wakeAt,
                        !.before = settings.current_week, !.after = settings.current_week]
          /\ UNCHANGED <<settings, disk_week, disk, timers, armLog, flipLog>>
     ELSE LET due == RotationDue(now, settings)
              s1 == IF due THEN [settings EXCEPT !.current_week = Other(settings.current_week)]
                    ELSE settings
          IN /\ settings' = s1
             /\ flipLog' = IF due THEN Append(flipLog, DayOf(now)) ELSE flipLog
             /\ IF due /\ ~disk_ok
                THEN /\ pc' = "dead"
                     /\ last' = [NoLast EXCEPT !.op = "morning_crash", !.at = now,
                                   !.target = wakeAt,
                                   !.before = settings.current_week, !.after = s1.current_week]
                     /\ UNCHANGED <<disk_week, disk, timers, armLog>>
                ELSE LET seen == MorningSettings(now, settings)
                         m == send_daily_morning(now, seen, schedules, users, groups, unreachable)
                         armed == schedule_reminders_for_today(now, seen, schedules)
                     IN /\ pc' = "top"
                        /\ disk_week' = IF due THEN s1.current_week ELSE disk_week
                        /\ disk' = IF due THEN [disk EXCEPT !.admins = s1.admins] ELSE disk
                        /\ timers' = timers \o armed
                        /\ armLog' = armLog \o ArmLogOf(armed)
                        /\ last' = [NoLast EXCEPT !.op = "morning", !.at = now,
                                      !.target = wakeAt,
                                      !.before = settings.current_week,
                                      !.after = s1.current_week,
                                      !.day = m.day, !.week = m.week, !.text = m.text,
                                      !.got_u = m.got_u, !.got_g = m.got_g,
                                      !.report = m.report,
                                      !.lead = seen.reminder_minutes_before,
                                      !.times = TimesToday(now, seen, schedules),
                                      !.armed = armed, !.armWeek = seen.current_week]

\* daily_scheduler_loop, the 18:00 branch after time.sleep has returned
Wake18 ==
  /\ pc = "sleep18"
  /\ now >= wakeAt
  /\ served' = wakeAt
  /\ pc' = "top"
  /\ UNCHANGED <<now, started, wakeAt, settings, disk_week, disk_ok, schedules, users,
                 groups, unreachable, timers, armLog, fired, flipLog, toggles, probe>>
  /\ UNCHANGED <<disk, steps, jobs, msgs>>
  /\ IF ~settings.send_18pm
     THEN /\ last' = [NoLast EXCEPT !.op = "evening_off", !.at = now, !.target = wakeAt,
                        !.before = settings.current_week, !.after = settings.current_week]
          /\ UNCHANGED preview
     ELSE LET e == send_daily_evening(now, settings, schedules, users, groups, unreachable)
          IN /\ last' = [NoLast EXCEPT !.op = "evening", !.at = now, !.target = wakeAt,
                           !.before = settings.current_week,
                           !.after = settings.current_week,
                           !.day = e.day, !.week = e.week, !.text = e.text,
                           !.got_u = e.got_u, !.got_g = e.got_g, !.report = e.report]
             /\ preview' = IF settings.auto_switch_on_monday /\ Weekday(now + MinPerDay) = 0
                           THEN [v |-> e.week, monday |-> DayOf(now) + 1]
                           ELSE preview

\* a threading.Timer runs out: reminder_send_for_time(t)
FireReminder ==
  \E i \in 1..Len(timers) :
    /\ timers[i].fireAt <= now
    /\ LET tm == timers[i]
           r == reminder_send_for_time(tm.t, now, settings, schedules,
                                       ReminderAudience(users, groups), unreachable)
       IN /\ fired' = Append(fired, [day |-> DayOf(now), t |-> tm.t, at |-> now,
                                     fireAt |-> tm.fireAt, subject |-> r.subject,
                                     generic |-> r.generic, got |-> r.got])
          /\ last' = [NoLast EXCEPT !.op = "reminder", !.at = now,
                        !.before = settings.current_week, !.after = settings.current_week,
                        !.got_u = r.got]
    /\ timers' = SubSeq(timers, 1, i - 1) \o SubSeq(timers, i + 1, Len(timers))
    /\ UNCHANGED <<now, started, pc, wakeAt, settings, disk_week, disk_ok, schedules,
                   users, groups, unreachable, armLog, flipLog, served, preview,
                   toggles, probe>>
    /\ UNCHANGED <<disk, steps, jobs, msgs>>

\* admin_switch_week on the switch button, in a chat with no next-step handler
\* pending; a writer the gate turns away gets no answer and nothing changes
AdminSwitchWeek ==
  /\ started
  /\ toggles < MaxToggles
  /\ \E m \in Writers :
       /\ steps[m.chat] = NoStep
       /\ IF user_is_allowed_as_admin(settings, groups, m.chat, m.from)
          THEN /\ toggles' = toggles + 1
               /\ settings' = [settings EXCEPT !.current_week = Other(settings.current_week)]
               /\ disk_week' = IF disk_ok THEN Other(settings.current_week) ELSE disk_week
               /\ disk' = IF disk_ok THEN [disk EXCEPT !.admins = settings.admins] ELSE disk
               /\ preview' = NoPreview
               /\ last' = [NoLast EXCEPT !.op = "toggle", !.at = now,
                             !.chat = m.chat, !.by = m.from,
                             !.before = settings.current_week,
                             !.after = Other(settings.current_week)]
          ELSE UNCHANGED <<toggles, settings, disk_week, disk, preview, last>>
  /\ UNCHANGED <<now, started, pc, wakeAt, disk_ok, schedules, users, groups,
                 unreachable, timers, armLog, fired, flipLog, served, probe,
                 steps, jobs, msgs>>

\* admin_switch_week up to the read of settings["current_week"]: on the pool
\* of threads another handler may run before the new value is stored
AdminSwitchWeekRead ==
  /\ started
  /\ msgs < MaxMsgs
  /\ msgs' = msgs + 1
  /\ Len(jobs) < MaxJobs
  /\ \E m \in Writers :
       /\ steps[m.chat] = NoStep
       /\ jobs' = IF user_is_allowed_as_admin(settings, groups, m.chat, m.from)
                  THEN Append(jobs, [fn |-> "admin_switch_week", chat |-> m.chat,
                                      by |-> m.from, buf |-> <<settings.current_week>>])
                  ELSE jobs
  /\ UNCHANGED <<now, started, pc, wakeAt, settings, disk_week, disk_ok, schedules,
                 users, groups, unreachable, timers, armLog, fired, flipLog, served,
                 preview, toggles, probe, disk, steps, last>>

\* admin_switch_week from the store on: the other of the value that was read
\* is assigned, settings.json is rewritten, the answer is sent
AdminSwitchWeekWrite ==
  /\ \E i \in 1..Len(jobs) :
       /\ jobs[i].fn = "admin_switch_week"
       /\ jobs' = SubSeq(jobs, 1, i - 1) \o SubSeq(jobs, i + 1, Len(jobs))
       /\ settings' = [settings EXCEPT !.current_week = Other(jobs[i].buf[1])]
       /\ disk_week' = IF disk_ok THEN Other(jobs[i].buf[1]) ELSE disk_week
       /\ disk' = IF disk_ok THEN [disk EXCEPT !.admins = settings.admins] ELSE disk
       /\ last' = [NoLast EXCEPT !.op = "toggle", !.at = now,
                     !.chat = jobs[i].chat, !.by = jobs[i].by,
                     !.before = jobs[i].buf[1], !.after = Other(jobs[i].buf[1])]
  /\ toggles' = toggles + 1
  /\ preview' = NoPreview
  /\ UNCHANGED <<now, started, pc, wakeAt, disk_ok, schedules, users, groups,
                 unreachable, timers, armLog, fired, flipLog, served, probe,
                 steps, msgs>>

\* what a handler that only renders and sends leaves behind
View(op, day, week) ==
  /\ started
  /\ last' = [NoLast EXCEPT !.op = op, !.at = now,
                !.before = settings.current_week, !.after = settings.current_week,
                !.day = day, !.week = week,
                !.text = pretty_schedule_text(schedules, day, week)]
  /\ UNCHANGED <<now, started, pc, wakeAt, settings, disk_week, disk_ok, schedules,
                 users, groups, unreachable, timers, armLog, fired, flipLog, served,
                 preview, toggles, probe>>
  /\ UNCHANGED <<disk, steps, jobs, msgs>>

\* handle_bugun (/bugun and the Bugun button)
HandleBugun == View("bugun", DayName(now), settings.current_week)

\* handle_day_buttons: the button of a day, rendered in the current variant
HandleDayButtons == \E d \in Range(Days) : View("day", d, settings.current_week)

\* a tomorrow view that never applies the rotation ahead of time
ErtagaWeek_current(n, s) == s.current_week

\* the variant handle_ertaga renders tomorrow with
ErtagaWeek(n, s) ==
  IF s.auto_switch_on_monday /\ Weekday(n + MinPerDay) = 0
  THEN Other(s.current_week) ELSE s.current_week

\* handle_ertaga (/ertaga and the Ertaga button)
HandleErtaga == View("ertaga", DayName(now + MinPerDay), ErtagaWeek(now, settings))

\* the variant callback_handler renders tomorrow with for grp_ertaga
GrpErtagaWeek(n, s) ==
  IF s.auto_switch_on_monday /\ Weekday(n + MinPerDay) = 0
  THEN Other(s.current_week) ELSE s.current_week

\* callback_handler on a grp_ertaga payload
CallbackGrpErtaga == View("grp_ertaga", DayName(now + MinPerDay), GrpErtagaWeek(now, settings))

---------------------------------------------------------------------------
(* Inline payloads.  A payload is a text whose symbols are words and ":".  *)

\* data.split(":")
RECURSIVE SplitColon(_)
SplitColon(data) ==
  LET k == FirstOf(data, ":")
  IN IF k = 0 THEN <<data>>
     ELSE <<SubSeq(data, 1, k - 1)>> \o SplitColon(SubSeq(data, k + 1, Len(data)))

\* the string a run of symbols without ":" stands for: one word, or ""
Word(part) == IF part = <<>> THEN "" ELSE part[1]

\* data.startswith(prefix + ":")
StartsWith(data, prefix) == Len(data) >= 2 /\ data[1] = prefix /\ data[2] = ":"

\* inline_day_nav: days.index(day_en) raises ValueError for a name that is not
\* in the list of the seven days
inline_day_nav(day_en, week_type) ==
  IF day_en \in Range(Days)
  THEN LET idx == CHOOSE i \in 1..7 : Days[i] = day_en
       IN [raised |-> FALSE, prev |-> Days[((idx + 5) % 7) + 1],
           next |-> Days[(idx % 7) + 1], week |-> week_type]
  ELSE [raised |-> TRUE, prev |-> "", next |-> "", week |-> week_type]

\* what callback_handler leaves behind for a rendered day: the message is
\* edited (or sent anew when the edit fails) unless inline_day_nav has raised
DayReply(day, week, sch) ==
  [out |-> IF inline_day_nav(day, week).raised THEN "raise" ELSE "edit",
   day |-> day, week |-> week, text |-> pretty_schedule_text(sch, day, week)]

\* callback_handler on payload data at instant n
callback_handler(data, n, s, sch) ==
  IF StartsWith(data, "grp_bugun")
  THEN DayReply(Word(SubSeq(data, 3, Len(data))), s.current_week, sch)
  ELSE IF StartsWith(data, "grp_ertaga")
  THEN DayReply(DayName(n + MinPerDay), GrpErtagaWeek(n, s), sch)
  ELSE IF StartsWith(data, "nav")
  THEN LET parts == SplitColon(data)
           action == Word(parts[2])
           week == IF Len(parts) > 2 THEN Word(parts[3]) ELSE s.current_week
       IN IF action = "weekly"
          THEN [out |-> "edit", day |-> "", week |-> week,
                text |-> [NoText EXCEPT !.kind = "weekly", !.week = week]]
          ELSE IF action = "noop"
          THEN [out |-> "answer", day |-> "", week |-> "", text |-> NoText]
          ELSE DayReply(action, week, sch)
  ELSE [out |-> "ignored", day |-> "", week |-> "", text |-> NoText]

\* the payloads the transport hands over: the ones the keyboards of the bot
\* carry, and others
Payloads ==
  {<<"nav", ":", "Monday", ":", "tepa">>, <<"nav", ":", "Sunday", ":", "pastgi">>,
   <<"nav", ":", "weekly", ":", "tepa">>, <<"nav", ":", "noop">>,
   <<"grp_bugun", ":", "Monday">>, <<"grp_ertaga", ":", "Monday">>,
   <<"nav", ":", "Foo", ":", "tepa">>, <<"nav", ":", "Foo">>, <<"nav", ":">>,
   <<"grp_bugun", ":", "Foo">>, <<"nav">>, <<"foo">>, <<"foo", ":", "Monday">>}

\* callback_handler is called with a payload
CallbackHandler ==
  /\ started
  /\ \E data \in Payloads :
       LET r == callback_handler(data, now, settings, schedules)
       IN last' = [NoLast EXCEPT !.op = "callback", !.at = now, !.input = data,
                     !.reply = r.out, !.day = r.day, !.week = r.week, !.text = r.text,
                     !.before = settings.current_week, !.after = settings.current_week]
  /\ UNCHANGED <<now, started, pc, wakeAt, settings, disk_week, disk_ok, schedules,
                 users, groups, unreachable, timers, armLog, fired, flipLog, served,
                 preview, toggles, probe, disk, steps, jobs, msgs>>

---------------------------------------------------------------------------
(* Texts of messages.  The label of a button is one symbol of a text.      *)

BtnTepa == <<"Tepa hafta">>

BtnPastgi == <<"Pastgi hafta">>

BtnBack == <<"Orqaga">>

BtnSwitch == <<"Haftani almashtirish">>

EN_TO_UZ_BTN ==
  [d \in Range(Days) |->
     CASE d = "Monday"    -> <<"Dushanba">>
       [] d = "Tuesday"   -> <<"Seshanba">>
       [] d = "Wednesday" -> <<"Chorshanba">>
       [] d = "Thursday"  -> <<"Payshanba">>
       [] d = "Friday"    -> <<"Juma">>
       [] d = "Saturday"  -> <<"Shanba">>
       [] OTHER           -> <<"Yakshanba">>]

\* m.text in UZ_BTN_TO_EN
InUzBtn(text) == \E d \in Range(Days) : EN_TO_UZ_BTN[d] = text

\* UZ_BTN_TO_EN[m.text]
UZ_BTN_TO_EN(text) == CHOOSE d \in Range(Days) : EN_TO_UZ_BTN[d] = text

\* the digits of a numeral, underscores dropped, as a number
RECURSIVE DigitsValue(_)
DigitsValue(x) ==
  IF x = <<>> THEN 0
  ELSE IF x[Len(x)] = "_" THEN DigitsValue(SubSeq(x, 1, Len(x) - 1))
  ELSE 10 * DigitsValue(SubSeq(x, 1, Len(x) - 1)) + DigitVal(x[Len(x)])

\* what int() takes after the sign: digits, with single underscores between
\* digits allowed
IsDigitString(x) ==
  /\ x # <<>>
  /\ IsDigit(x[1])
  /\ IsDigit(x[Len(x)])
  /\ \A i \in 1..Len(x) : IsDigit(x[i]) \/ x[i] = "_"
  /\ \A i \in 1..(Len(x) - 1) : ~(x[i] = "_" /\ x[i + 1] = "_")

\* int(m.text.strip()): ok is FALSE where int raises ValueError
ParseInt(text) ==
  LET x == Strip(text)
      signed == x # <<>> /\ x[1] \in {"+", "-"}
      body == IF signed THEN Tail(x) ELSE x
  IN IF IsDigitString(body)
     THEN [ok |-> TRUE,
           val |-> IF signed /\ x[1] = "-" THEN 0 - DigitsValue(body) ELSE DigitsValue(body)]
     ELSE [ok |-> FALSE, val |-> 0]

---------------------------------------------------------------------------
(* The admin flows.  An update for a chat with a next-step handler goes to *)
(* that handler, which is thereby used up; any other update goes to the    *)
(* first message handler whose filter takes it.                            *)

\* what a handler called with message m leaves in the history
Handled(op, m, text, reply) ==
  [NoLast EXCEPT !.op = op, !.at = now, !.chat = m.chat, !.by = m.from,
                 !.input = text, !.reply = reply,
                 !.before = settings.current_week, !.after = settings.current_week]

\* admins after aid has been removed (list.remove: the first occurrence)
RemoveFirst(xs, x) ==
  LET k == CHOOSE i \in 1..Len(xs) : xs[i] = x /\ \A j \in 1..(i - 1) : xs[j] # x
  IN SubSeq(xs, 1, k - 1) \o SubSeq(xs, k + 1, Len(xs))

\* schedules.setdefault(week, {})[day] = text
SetDay(sch, week, day, text) ==
  [sch EXCEPT ![week] = [d \in DOMAIN sch[week] \cup {day} |->
                           IF d = day THEN text ELSE sch[week][d]]]

\* the texts sent where a day button is expected
DayStepTexts == {EN_TO_UZ_BTN["Monday"], BtnBack, BtnSwitch, <<"x">>}

\* the texts sent where the new day text is expected
SaveTexts == {<<"x">>, <<" ">> \o Lesson(T0900, <<"Z", "z">>)}

\* the texts sent where an admin id is expected
IdTexts ==
  {<<"7">>, <<" ", "7">>, <<"1", "0", "0">>, <<"x">>, <<"7", "x">>, <<"1", "_", "0">>, BtnBack}

\* admin_edit_choose_week: the first handler that takes "Tepa hafta" and
\* "Pastgi hafta"
AdminEditChooseWeek ==
  /\ started
  /\ msgs < MaxMsgs
  /\ msgs' = msgs + 1
  /\ \E m \in Writers, text \in {BtnTepa, BtnPastgi} :
       /\ steps[m.chat] = NoStep
       /\ IF user_is_allowed_as_admin(settings, groups, m.chat, m.from)
          THEN /\ steps' = [steps EXCEPT ![m.chat] =
                              [fn |-> "admin_edit_day_step",
                               week |-> IF text = BtnTepa THEN "tepa" ELSE "pastgi",
                               day |-> ""]]
               /\ last' = [Handled("admin_edit_choose_week", m, text, "which_day")
                             EXCEPT !.asked = IF last.op = "admin_delete_start"
                                                   /\ last.chat = m.chat
                                                   /\ last.reply = "which_week"
                                               THEN "delete" ELSE ""]
          ELSE /\ UNCHANGED steps
               /\ last' = Handled("admin_edit_choose_week", m, text, "")
  /\ UNCHANGED <<now, started, pc, wakeAt, settings, disk_week, disk_ok, schedules,
                 users, groups, unreachable, timers, armLog, fired, flipLog, served,
                 preview, toggles, probe, disk, jobs>>

\* admin_delete_start on its button, in a chat with no next-step handler
\* pending: the keyboard with the two week buttons is sent, nothing is
\* registered
AdminDeleteStart ==
  /\ started
  /\ msgs < MaxMsgs
  /\ msgs' = msgs + 1
  /\ \E m \in Writers :
       /\ steps[m.chat] = NoStep
       /\ last' = Handled("admin_delete_start", m, <<"Jadval o'chirish">>,
                          IF user_is_allowed_as_admin(settings, groups, m.chat, m.from)
                          THEN "which_week" ELSE "")
  /\ UNCHANGED <<now, started, pc, wakeAt, settings, disk_week, disk_ok, schedules,
                 users, groups, unreachable, timers, armLog, fired, flipLog, served,
                 preview, toggles, probe, disk, steps, jobs>>

\* admin_edit_day_step, the next-step handler of admin_edit_choose_week
AdminEditDayStep ==
  /\ started
  /\ msgs < MaxMsgs
  /\ msgs' = msgs + 1
  /\ \E m \in Writers, text \in DayStepTexts :
       /\ steps[m.chat].fn = "admin_edit_day_step"
       /\ IF ~user_is_allowed_as_admin(settings, groups, m.chat, m.from)
          THEN /\ steps' = [steps EXCEPT ![m.chat] = NoStep]
               /\ last' = Handled("admin_edit_day_step", m, text, "")
          ELSE IF text = BtnBack
          THEN /\ steps' = [steps EXCEPT ![m.chat] = NoStep]
               /\ last' = Handled("admin_edit_day_step", m, text, "back")
          ELSE IF ~InUzBtn(text)
          THEN /\ steps' = [steps EXCEPT ![m.chat] = NoStep]
               /\ last' = Handled("admin_edit_day_step", m, text, "error")
          ELSE /\ steps' = [steps EXCEPT ![m.chat] =
                              [fn |-> "admin_save_day", week |-> steps[m.chat].week,
                               day |-> UZ_BTN_TO_EN(text)]]
               /\ last' = Handled("admin_edit_day_step", m, text, "send_text")
  /\ UNCHANGED <<now, started, pc, wakeAt, settings, disk_week, disk_ok, schedules,
                 users, groups, unreachable, timers, armLog, fired, flipLog, served,
                 preview, toggles, probe, disk, jobs>>

\* admin_save_day, the next-step handler of admin_edit_day_step
AdminSaveDay ==
  /\ started
  /\ msgs < MaxMsgs
  /\ msgs' = msgs + 1
  /\ \E m \in Writers, text \in SaveTexts :
       /\ steps[m.chat].fn = "admin_save_day"
       /\ steps' = [steps EXCEPT ![m.chat] = NoStep]
       /\ IF ~user_is_allowed_as_admin(settings, groups, m.chat, m.from)
          THEN /\ UNCHANGED <<schedules, disk>>
               /\ last' = Handled("admin_save_day", m, text, "")
          ELSE LET sch == SetDay(schedules, steps[m.chat].week, steps[m.chat].day,
                                 Strip(text))
               IN /\ schedules' = sch
                  /\ disk' = IF disk_ok THEN [disk EXCEPT !.schedules = sch] ELSE disk
                  /\ last' = [Handled("admin_save_day", m, text,
                                       IF disk_ok THEN "saved" ELSE "")
                                EXCEPT !.week = steps[m.chat].week,
                                       !.day = steps[m.chat].day]
  /\ UNCHANGED <<now, started, pc, wakeAt, settings, disk_week, disk_ok,
                 users, groups, unreachable, timers, armLog, fired, flipLog, served,
                 preview, toggles, probe, jobs>>

\* admin_manage_admins on its button, in a chat with no next-step handler pending
AdminManageAdmins ==
  /\ started
  /\ msgs < MaxMsgs
  /\ msgs' = msgs + 1
  /\ \E m \in Writers :
       /\ steps[m.chat] = NoStep
       /\ IF user_is_allowed_as_admin(settings, groups, m.chat, m.from)
          THEN /\ steps' = [steps EXCEPT ![m.chat] =
                              [NoStep EXCEPT !.fn = "admin_manage_admins_step"]]
               /\ last' = Handled("admin_manage_admins", m, <<>>, "send_id")
          ELSE /\ UNCHANGED steps
               /\ last' = Handled("admin_manage_admins", m, <<>>, "")
  /\ UNCHANGED <<now, started, pc, wakeAt, settings, disk_week, disk_ok, schedules,
                 users, groups, unreachable, timers, armLog, fired, flipLog, served,
                 preview, toggles, probe, disk, jobs>>

\* admin_manage_admins_step, the next-step handler of admin_manage_admins
AdminManageAdminsStep ==
  /\ started
  /\ msgs < MaxMsgs
  /\ msgs' = msgs + 1
  /\ \E m \in Writers, text \in IdTexts :
       /\ steps[m.chat].fn = "admin_manage_admins_step"
       /\ steps' = [steps EXCEPT ![m.chat] = NoStep]
       /\ IF ~user_is_allowed_as_admin(settings, groups, m.chat, m.from)
          THEN /\ UNCHANGED <<settings, disk, disk_week>>
               /\ last' = Handled("admin_manage_admins_step", m, text, "")
          ELSE IF ~ParseInt(text).ok
          THEN /\ UNCHANGED <<settings, disk, disk_week>>
               /\ last' = Handled("admin_manage_admins_step", m, text, "error")
          ELSE LET aid == ParseInt(text).val
                   known == \E i \in 1..Len(settings.admins) : settings.admins[i] = aid
                   admins == IF known THEN RemoveFirst(settings.admins, aid)
                             ELSE Append(settings.admins, aid)
               IN /\ settings' = [settings EXCEPT !.admins = admins]
                  /\ disk' = IF disk_ok THEN [disk EXCEPT !.admins = admins] ELSE disk
                  /\ disk_week' = IF disk_ok THEN settings.current_week ELSE disk_week
                  /\ last' = Handled("admin_manage_admins_step", m, text,
                                     IF ~disk_ok THEN ""
                                     ELSE IF known THEN "removed" ELSE "added")
  /\ UNCHANGED <<now, started, pc, wakeAt, disk_ok, schedules,
                 users, groups, unreachable, timers, armLog, fired, flipLog, served,
                 preview, toggles, probe, jobs>>

\* admin_broadcast_start on its button, in a chat with no next-step handler
\* pending
AdminBroadcastStart ==
  /\ started
  /\ msgs < MaxMsgs
  /\ msgs' = msgs + 1
  /\ \E m \in Writers :
       /\ steps[m.chat] = NoStep
       /\ IF user_is_allowed_as_admin(settings, groups, m.chat, m.from)
          THEN /\ steps' = [steps EXCEPT ![m.chat] =
                              [NoStep EXCEPT !.fn = "admin_broadcast_send"]]
               /\ last' = Handled("admin_broadcast_start", m, <<>>, "send_text")
          ELSE /\ UNCHANGED steps
               /\ last' = Handled("admin_broadcast_start", m, <<>>, "")
  /\ UNCHANGED <<now, started, pc, wakeAt, settings, disk_week, disk_ok, schedules,
                 users, groups, unreachable, timers, armLog, fired, flipLog, served,
                 preview, toggles, probe, disk, jobs>>

\* admin_broadcast_send, the next-step handler of admin_broadcast_start, leaving
\* us1 as the users list: the text goes to list(users), the count to the admin
AdminBroadcastSendLeaving(us1) ==
  /\ started
  /\ msgs < MaxMsgs
  /\ msgs' = msgs + 1
  /\ users' = us1
  /\ \E m \in Writers :
       /\ steps[m.chat].fn = "admin_broadcast_send"
       /\ steps' = [steps EXCEPT ![m.chat] = NoStep]
       /\ IF ~user_is_allowed_as_admin(settings, groups, m.chat, m.from)
          THEN last' = Handled("admin_broadcast_send", m, <<"x">>, "")
          ELSE LET f == Fanout(unreachable, users)
               IN last' = [Handled("admin_broadcast_send", m, <<"x">>, "count")
                             EXCEPT !.got_u = f.got, !.sends = Len(users),
                                    !.report = [NoReport EXCEPT !.sent_u = f.sent]]
  /\ UNCHANGED <<now, started, pc, wakeAt, settings, disk_week, disk_ok, schedules,
                 groups, unreachable, timers, armLog, fired, flipLog, served,
                 preview, toggles, probe, disk, jobs>>

\* a broadcast that drops the subscribers it could not reach
AdminBroadcastSend_prune ==
  AdminBroadcastSendLeaving(SelectSeq(users, LAMBDA u : u \notin unreachable))

\* admin_broadcast_send
AdminBroadcastSend == AdminBroadcastSendLeaving(users)

---------------------------------------------------------------------------
(* The registry.  handle_start and on_new_members test membership and then *)
(* append; the transport runs handlers on a pool of threads, so another    *)
(* handler may run between the test and the append.                        *)

\* a membership test that never finds the id
NotIn_always(ids, chat_id) == TRUE

\* chat_id not in users, gid not in groups
NotIn(ids, chat_id) == \A i \in 1..Len(ids) : ids[i] # chat_id

\* the sends of handle_start once the registry is settled: two in a private
\* chat; in a group the first is a bare bot.send_message, whose exception ends
\* the handler
StartSends(chat_id, bad) ==
  IF ChatType(chat_id) = "group" /\ chat_id \in bad THEN 1 ELSE 2

StartDone(m, added) ==
  [Handled("handle_start", m, <<"/", "start">>, "welcome")
     EXCEPT !.added = added, !.sends = StartSends(m.chat, unreachable),
            !.day = DayName(now), !.week = settings.current_week,
            !.text = pretty_schedule_text(schedules, DayName(now), settings.current_week)]

\* handle_start up to the membership test: a chat already listed is answered at
\* once, for another the append is still to come
HandleStart ==
  /\ started
  /\ msgs < MaxMsgs
  /\ msgs' = msgs + 1
  /\ Len(jobs) < MaxJobs
  /\ \E m \in Writers :
       /\ steps[m.chat] = NoStep
       /\ IF NotIn(IF ChatType(m.chat) = "private" THEN users ELSE groups, m.chat)
          THEN /\ jobs' = Append(jobs, [fn |-> "handle_start", chat |-> m.chat,
                                         by |-> m.from, buf |-> <<>>])
               /\ UNCHANGED last
          ELSE /\ UNCHANGED jobs
               /\ last' = StartDone(m, 0)
  /\ UNCHANGED <<now, started, pc, wakeAt, settings, disk_week, disk_ok, schedules,
                 users, groups, unreachable, timers, armLog, fired, flipLog, served,
                 preview, toggles, probe, disk, steps>>

\* handle_start from the append on: users.append or groups.append, save_json,
\* the sends
HandleStartAppend ==
  /\ \E i \in 1..Len(jobs) :
       /\ jobs[i].fn = "handle_start"
       /\ jobs' = SubSeq(jobs, 1, i - 1) \o SubSeq(jobs, i + 1, Len(jobs))
       /\ IF ChatType(jobs[i].chat) = "private"
          THEN /\ users' = Append(users, jobs[i].chat)
               /\ disk' = IF disk_ok THEN [disk EXCEPT !.users = Append(users, jobs[i].chat)]
                           ELSE disk
               /\ UNCHANGED groups
          ELSE /\ groups' = Append(groups, jobs[i].chat)
               /\ disk' = IF disk_ok THEN [disk EXCEPT !.groups = Append(groups, jobs[i].chat)]
                           ELSE disk
               /\ UNCHANGED users
       /\ last' = IF disk_ok
                  THEN StartDone([chat |-> jobs[i].chat, from |-> jobs[i].by], 1)
                  ELSE [StartDone([chat |-> jobs[i].chat, from |-> jobs[i].by], 1)
                          EXCEPT !.sends = 0, !.reply = "", !.text = NoText]
  /\ UNCHANGED <<now, started, pc, wakeAt, settings, disk_week, disk_ok, schedules,
                 unreachable, timers, armLog, fired, flipLog, served,
                 preview, toggles, probe, steps, msgs>>

\* on_new_members for the bot itself, up to the membership test
OnNewMembers ==
  /\ started
  /\ msgs < MaxMsgs
  /\ msgs' = msgs + 1
  /\ Len(jobs) < MaxJobs
  /\ \E gid \in GroupChats :
       /\ steps[gid] = NoStep
       /\ IF NotIn(groups, gid)
          THEN /\ jobs' = Append(jobs, [fn |-> "on_new_members", chat |-> gid, by |-> 0,
                                         buf |-> <<>>])
               /\ UNCHANGED last
          ELSE /\ UNCHANGED jobs
               /\ last' = [NoLast EXCEPT !.op = "on_new_members", !.at = now,
                             !.chat = gid, !.sends = 1, !.reply = "joined",
                             !.before = settings.current_week,
                             !.after = settings.current_week]
  /\ UNCHANGED <<now, started, pc, wakeAt, settings, disk_week, disk_ok, schedules,
                 users, groups, unreachable, timers, armLog, fired, flipLog, served,
                 preview, toggles, probe, disk, steps>>

\* on_new_members from the append on; an exception of save_json or of the send
\* is swallowed by the handler
OnNewMembersAppend ==
  /\ \E i \in 1..Len(jobs) :
       /\ jobs[i].fn = "on_new_members"
       /\ jobs' = SubSeq(jobs, 1, i - 1) \o SubSeq(jobs, i + 1, Len(jobs))
       /\ groups' = Append(groups, jobs[i].chat)
       /\ disk' = IF disk_ok THEN [disk EXCEPT !.groups = Append(groups, jobs[i].chat)]
                   ELSE disk
       /\ last' = [NoLast EXCEPT !.op = "on_new_members", !.at = now,
                     !.chat = jobs[i].chat, !.added = 1,
                     !.sends = IF disk_ok THEN 1 ELSE 0,
                     !.reply = IF disk_ok THEN "joined" ELSE "",
                     !.before = settings.current_week, !.after = settings.current_week]
  /\ UNCHANGED <<now, started, pc, wakeAt, settings, disk_week, disk_ok, schedules,
                 users, unreachable, timers, armLog, fired, flipLog, served,
                 preview, toggles, probe, steps, msgs>>

\* the content of a file after a handle that was opened earlier writes buf
\* from offset 0: a file that has meanwhile grown longer than buf keeps its
\* tail, and -1 stands for the bytes that make it no JSON document any more
Overwrite(file, buf) ==
  IF Len(buf) >= Len(file) THEN buf
  ELSE buf \o <<-1>> \o SubSeq(file, Len(buf) + 2, Len(file))

\* handle_start from the append into save_json: users.append or groups.append,
\* open(path, "w") empties the file, json.dump fills the buffer of the handle
HandleStartDump ==
  /\ \E i \in 1..Len(jobs) :
       /\ jobs[i].fn = "handle_start"
       /\ IF ChatType(jobs[i].chat) = "private"
          THEN /\ users' = Append(users, jobs[i].chat)
               /\ disk' = [disk EXCEPT !.users = <<>>]
               /\ jobs' = [jobs EXCEPT ![i].fn = "save_json",
                                       ![i].buf = Append(users, jobs[i].chat)]
               /\ UNCHANGED groups
          ELSE /\ groups' = Append(groups, jobs[i].chat)
               /\ disk' = [disk EXCEPT !.groups = <<>>]
               /\ jobs' = [jobs EXCEPT ![i].fn = "save_json",
                                       ![i].buf = Append(groups, jobs[i].chat)]
               /\ UNCHANGED users
  /\ UNCHANGED <<now, started, pc, wakeAt, settings, disk_week, disk_ok, schedules,
                 unreachable, timers, armLog, fired, flipLog, served,
                 preview, toggles, probe, steps, msgs, last>>

\* handle_start from the end of save_json on: the with block is left, the
\* buffer is written and the handle closed; then the sends
HandleStartClose ==
  /\ \E i \in 1..Len(jobs) :
       /\ jobs[i].fn = "save_json"
       /\ jobs' = SubSeq(jobs, 1, i - 1) \o SubSeq(jobs, i + 1, Len(jobs))
       /\ disk' = IF ChatType(jobs[i].chat) = "private"
                  THEN [disk EXCEPT !.users = Overwrite(disk.users, jobs[i].buf)]
                  ELSE [disk EXCEPT !.groups = Overwrite(disk.groups, jobs[i].buf)]
       /\ last' = StartDone([chat |-> jobs[i].chat, from |-> jobs[i].by], 1)
  /\ UNCHANGED <<now, started, pc, wakeAt, settings, disk_week, disk_ok, schedules,
                 users, groups, unreachable, timers, armLog, fired, flipLog, served,
                 preview, toggles, probe, steps, msgs>>

\* on_left for the bot itself: the group is taken off the list
OnLeft ==
  /\ started
  /\ msgs < MaxMsgs
  /\ msgs' = msgs + 1
  /\ \E gid \in GroupChats :
       /\ steps[gid] = NoStep
       /\ IF NotIn(groups, gid)
          THEN UNCHANGED <<groups, disk>>
          ELSE /\ groups' = RemoveFirst(groups, gid)
               /\ disk' = IF disk_ok THEN [disk EXCEPT !.groups = RemoveFirst(groups, gid)]
                           ELSE disk
       /\ last' = [NoLast EXCEPT !.op = "on_left", !.at = now, !.chat = gid,
                     !.before = settings.current_week, !.after = settings.current_week]
  /\ UNCHANGED <<now, started, pc, wakeAt, settings, disk_week, disk_ok, schedules,
                 users, unreachable, timers, armLog, fired, flipLog, served,
                 preview, toggles, probe, steps, jobs>>

\* the instants the clock is looked at: every six hours, and whenever a timer
\* runs out
GridHours == {0, 6, 12, 18}

Instants ==
  {At(d, h, 0) : d \in 0..LastDay, h \in GridHours}
    \cup {timers[i].fireAt : i \in 1..Len(timers)}

\* time passes, up to the next instant.  A pending timer fires at its instant;
\* the loop's time.sleep may return late, and a step of the loop may take long.
Tick ==
  /\ started
  /\ \A i \in 1..Len(timers) : timers[i].fireAt > now
  /\ \E n \in Instants :
       /\ n > now
       /\ n <= At(LastDay, 0, 0)
       /\ \A k \in Instants : k > now => n <= k
       /\ now' = n
       /\ armLog' = IF DayOf(n) = DayOf(now) THEN armLog ELSE <<>>
       /\ fired' = IF DayOf(n) = DayOf(now) THEN fired ELSE <<>>
       /\ flipLog' = IF DayOf(n) = DayOf(now) THEN flipLog ELSE <<>>
  /\ last' = NoLast
  /\ UNCHANGED <<started, pc, wakeAt, settings, disk_week, disk_ok, schedules, users,
                 groups, unreachable, timers, served, preview, toggles, probe>>
  /\ UNCHANGED <<disk, steps, jobs, msgs>>

\* settings.json stops being writable
DiskFails ==
  /\ started
  /\ disk_ok
  /\ disk_ok' = FALSE
  /\ UNCHANGED <<now, started, pc, wakeAt, settings, disk_week, schedules, users,
                 groups, unreachable, timers, armLog, fired, flipLog, served, preview,
                 toggles, last, probe>>
  /\ UNCHANGED <<disk, steps, jobs, msgs>>

Next ==
  \/ StartBackground
  \/ LoopTop
  \/ Wake6
  \/ Wake18
  \/ FireReminder
  \/ AdminSwitchWeek
  \/ HandleBugun
  \/ HandleErtaga
  \/ CallbackGrpErtaga
  \/ Tick

Spec == Init /\ [][Next]_vars

\* the same program on a disk that may stop taking writes
NextIO == Next \/ DiskFails

SpecIO == Init /\ [][NextIO]_vars

---------------------------------------------------------------------------
(* The admin flows on their own: the process is started on a Monday at     *)
(* 07:00, the loop is left out, and the people of Writers write to the bot *)
(* while the reminders of the day run out.                                 *)

InitAdmin ==
  /\ now = At(7, 7, 0)
  /\ settings \in {d \in SettingsDocs :
                     d.auto_switch_on_monday /\ d.send_6am /\ d.send_18pm
                       /\ d.current_week = "tepa"}
  /\ users = <<1, 2>>
  /\ groups = <<10>>
  /\ unreachable = {2}
  /\ probe = NoProbe
  /\ schedules = DefaultSchedules
  /\ Idle

NextAdmin ==
  \/ StartBackground
  \/ AdminSwitchWeek
  \/ AdminEditChooseWeek
  \/ AdminEditDayStep
  \/ AdminSaveDay
  \/ AdminManageAdmins
  \/ AdminManageAdminsStep
  \/ FireReminder
  \/ Tick

SpecAdmin == InitAdmin /\ [][NextAdmin]_vars

---------------------------------------------------------------------------
(* The delete flow.  The week buttons are taken by the first message       *)
(* handler whose filter matches them, admin_edit_choose_week; the handlers *)
(* registered after it for the same buttons, admin_add_choose_week and     *)
(* admin_delete_choose_week, and their next-step handlers are never called. *)

NextDelete ==
  \/ StartBackground
  \/ AdminDeleteStart
  \/ AdminEditChooseWeek
  \/ AdminEditDayStep
  \/ AdminSaveDay

SpecDelete == InitAdmin /\ [][NextDelete]_vars

---------------------------------------------------------------------------
(* The registry on its own: the process is started with nobody registered, *)
(* and people and groups join and leave.                                   *)

InitReg ==
  /\ now = At(7, 5, 0)
  /\ settings \in {d \in SettingsDocs :
                     d.auto_switch_on_monday /\ d.send_6am /\ d.send_18pm
                       /\ d.current_week = "tepa"}
  /\ users = <<>>
  /\ groups = <<>>
  /\ unreachable = {2}
  /\ probe = NoProbe
  /\ schedules = DefaultSchedules
  /\ Idle

NextReg ==
  \/ StartBackground
  \/ HandleStart
  \/ HandleStartAppend
  \/ OnNewMembers
  \/ OnNewMembersAppend
  \/ OnLeft

SpecReg == InitReg /\ [][NextReg]_vars

---------------------------------------------------------------------------
(* The registry with save_json taken apart: handlers on the pool of threads *)
(* may be between opening a document and closing it at the same time.      *)

NextSave ==
  \/ StartBackground
  \/ HandleStart
  \/ HandleStartDump
  \/ HandleStartClose

SpecSave == InitReg /\ [][NextSave]_vars

---------------------------------------------------------------------------
(* The broadcasts on their own: the process is started on a Monday at      *)
(* 05:00 with two subscribers and a group; the loop, the reminders and an  *)
(* admin broadcast go out while the group may be left or joined again.     *)

InitCast ==
  /\ now = At(7, 5, 0)
  /\ settings \in {d \in SettingsDocs :
                     d.auto_switch_on_monday /\ d.send_6am /\ d.send_18pm
                       /\ d.current_week = "tepa"}
  /\ users = <<1, 2>>
  /\ groups = <<10>>
  /\ unreachable = {2}
  /\ probe = NoProbe
  /\ schedules = DefaultSchedules
  /\ Idle

NextCast ==
  \/ StartBackground
  \/ AdminBroadcastStart
  \/ AdminBroadcastSend
  \/ OnLeft
  \/ LoopTop
  \/ Wake6
  \/ Wake18
  \/ FireReminder
  \/ Tick

SpecCast == InitCast /\ [][NextCast]_vars

---------------------------------------------------------------------------
(* Groups joining and leaving while the daily loop broadcasts: the process  *)
(* is started with nobody registered.                                       *)

NextLeave ==
  \/ StartBackground
  \/ OnNewMembers
  \/ OnNewMembersAppend
  \/ OnLeft
  \/ LoopTop
  \/ Wake6
  \/ Wake18
  \/ FireReminder
  \/ Tick

SpecLeave == InitReg /\ [][NextLeave]_vars

---------------------------------------------------------------------------
(* Toggles from several admins at once: the process is started in the tepa *)
(* variant.                                                                *)

InitToggle ==
  /\ now \in StartInstants
  /\ settings \in {d \in SettingsDocs : d.current_week = "tepa"}
  /\ users = <<1, 2>>
  /\ groups = <<10>>
  /\ unreachable = {2}
  /\ probe = NoProbe
  /\ schedules = DefaultSchedules
  /\ Idle

NextToggle ==
  \/ StartBackground
  \/ AdminSwitchWeekRead
  \/ AdminSwitchWeekWrite

SpecToggle == InitToggle /\ [][NextToggle]_vars

---------------------------------------------------------------------------
(* Rendering on its own: the process has loaded one of several schedule    *)
(* documents, and people press the day buttons.                            *)

\* sch without the entry of day in variant week
WithoutDay(sch, week, day) ==
  [sch EXCEPT ![week] = [d \in (DOMAIN sch[week]) \ {day} |-> sch[week][d]]]

\* sch with text as the entry of day in variant week
WithDay(sch, week, day, text) ==
  [sch EXCEPT ![week] =
     [d \in (DOMAIN sch[week]) \cup {day} |-> IF d = day THEN text ELSE sch[week][d]]]

\* the documents schedules.json may hold: the default, one with a day missing,
\* one with an empty day, one with only one variant, one with Sunday entries
TextSchedules ==
  {DefaultSchedules,
   WithoutDay(DefaultSchedules, "tepa", "Monday"),
   WithDay(DefaultSchedules, "pastgi", "Tuesday", <<>>),
   [w \in {"pastgi"} |-> DefaultSchedules[w]],
   WithDay(WithDay(DefaultSchedules, "tepa", "Sunday", Lesson(T0900, <<"Y", "a">>)),
           "pastgi", "Sunday", Lesson(T1000, <<"K", "o">>))}

InitText ==
  /\ now \in StartInstants
  /\ settings \in {d \in SettingsDocs : d.send_6am /\ d.send_18pm}
  /\ users = <<1, 2>>
  /\ groups = <<10>>
  /\ unreachable = {2}
  /\ probe = NoProbe
  /\ schedules \in TextSchedules
  /\ Idle

NextText ==
  \/ StartBackground
  \/ HandleDayButtons

SpecText == InitText /\ [][NextText]_vars

---------------------------------------------------------------------------
(* Reminders from arming to firing: the process is started on a Monday     *)
(* morning with the default schedules or with a Monday text an admin has   *)
(* saved: an evening lesson above a morning one typed as 8:00, or a first  *)
(* line without the dash.  An admin may change the variant before a        *)
(* reminder fires.                                                         *)

InitFire ==
  /\ now = At(7, 5, 0)
  /\ settings \in {d \in SettingsDocs : d.send_6am /\ d.send_18pm}
  /\ users = <<1, 2>>
  /\ groups = <<10>>
  /\ unreachable = {2}
  /\ probe = NoProbe
  /\ schedules \in
       {DefaultSchedules,
        WithDay(DefaultSchedules, "tepa", "Monday",
                Lesson(Tm("1", "8", "0", "0"), <<"X", "x">>) \o NL
                  \o Lesson(<<"8", ":", "0", "0">>, <<"B", "i">>)),
        WithDay(DefaultSchedules, "tepa", "Monday",
                T0800 \o <<" ", "M", "a">> \o NL \o Lesson(T0900, <<"F", "i">>))}
  /\ Idle

NextFire ==
  \/ StartBackground
  \/ AdminSwitchWeek
  \/ FireReminder
  \/ Tick

SpecFire == InitFire /\ [][NextFire]_vars

---------------------------------------------------------------------------
(* The inline keyboard: payloads arrive at any instant, under any settings. *)

NextCb ==
  \/ StartBackground
  \/ CallbackHandler
  \/ FireReminder
  \/ Tick

SpecCb == Init /\ [][NextCb]_vars

---------------------------------------------------------------------------
(* schedule_reminders_for_today on its own: the process is started at one  *)
(* of many instants, with one of several leads, and arms at startup.       *)

ArmInstants ==
  {At(d, h, m) : d \in {6, 7, 12}, h \in {7, 8, 9, 10}, m \in {0, 10, 15, 30, 45, 50}}

\* two tokens the pattern takes and datetime.datetime refuses
T0870 == Tm("0", "8", "7", "0")
T2599 == Tm("2", "5", "9", "9")

\* a Monday text an admin has saved, with out-of-range tokens among the lessons
BadMonday ==
  Lesson(T2599, <<"X">>) \o NL \o Lesson(T0900, <<"F">>) \o NL
    \o Lesson(T0870, <<"Y">>) \o NL \o Lesson(T1030, <<"I">>)

\* the schedule tables the process may load: the defaults, or the defaults with
\* Monday overwritten in both variants
ArmSchedules ==
  {DefaultSchedules,
   SetDay(SetDay(DefaultSchedules, "tepa", "Monday", BadMonday),
          "pastgi", "Monday", BadMonday)}

ArmSettings ==
  [current_week : Weeks, auto_switch_on_monday : {TRUE},
   reminder_minutes_before : {0, 15, 60}, send_6am : {TRUE}, send_18pm : {TRUE},
   admins : {<<ADMIN_ID>>}]

InitArm ==
  /\ now \in ArmInstants
  /\ settings \in ArmSettings
  /\ users = <<1, 2>>
  /\ groups = <<10>>
  /\ unreachable = {}
  /\ probe = NoProbe
  /\ schedules \in ArmSchedules
  /\ Idle

NextArm == StartBackground

SpecArm == InitArm /\ [][NextArm]_vars

---------------------------------------------------------------------------
(* parse_times_from_text on its own: the text is one to MaxLines lines,    *)
(* each a lesson line or an annotation.                                    *)

ParseLines ==
  {Lesson(T0800, <<"M">>), Lesson(T0900, <<"F">>), Lesson(T1030, <<"I">>),
   Lesson(<<"9", ":", "0", "0">>, <<"A">>), Lesson(<<"8", ":", "0", "0">>, <<"B">>),
   <<"x">>}

RECURSIVE JoinLines(_)
JoinLines(ls) ==
  IF Len(ls) = 1 THEN ls[1] ELSE ls[1] \o NL \o JoinLines(Tail(ls))

ParseTexts ==
  {JoinLines(ls) : ls \in UNION {[1..k -> ParseLines] : k \in 1..MaxLines}}

InitParse ==
  /\ now = 0
  /\ settings \in {d \in ArmSettings :
                     d.current_week = "tepa" /\ d.reminder_minutes_before = 15}
  /\ users = <<>>
  /\ groups = <<>>
  /\ unreachable = {}
  /\ probe \in {[fn |-> "text", text |-> x, out |-> <<>>] : x \in ParseTexts}
  /\ schedules = DefaultSchedules
  /\ Idle

ParseTimes ==
  /\ probe.fn = "text"
  /\ probe' = [probe EXCEPT !.fn = "parsed", !.out = parse_times_from_text(probe.text)]
  /\ UNCHANGED <<now, started, pc, wakeAt, settings, disk_week, disk_ok, schedules,
                 users, groups, unreachable, timers, armLog, fired, flipLog, served,
                 preview, toggles, last>>
  /\ UNCHANGED <<disk, steps, jobs, msgs>>

NextParse == ParseTimes

SpecParse == InitParse /\ [][NextParse]_vars

---------------------------------------------------------------------------
(* seconds_until_target on its own: the clock reads one of many instants,  *)
(* among them the targets themselves and the minutes around them, and the  *)
(* function is called for one of the two targets of the loop.              *)

ClockInstants == {At(d, h, m) : d \in {0, 6}, h \in 0..23, m \in {0, 1, 59}}

InitClock ==
  /\ now \in ClockInstants
  /\ settings \in {d \in ArmSettings :
                     d.current_week = "tepa" /\ d.reminder_minutes_before = 15}
  /\ users = <<>>
  /\ groups = <<>>
  /\ unreachable = {}
  /\ probe = [NoProbe EXCEPT !.fn = "clock"]
  /\ schedules = DefaultSchedules
  /\ Idle

\* sec6 = seconds_until_target(6, 0) or sec18 = seconds_until_target(18, 0)
SecondsUntil ==
  /\ probe.fn = "clock"
  /\ \E hour \in {6, 18} :
       probe' = [probe EXCEPT !.fn = "seconds",
                              !.out = <<hour, seconds_until_target(now, hour, 0)>>]
  /\ UNCHANGED <<now, started, pc, wakeAt, settings, disk_week, disk_ok, schedules,
                 users, groups, unreachable, timers, armLog, fired, flipLog, served,
                 preview, toggles, last>>
  /\ UNCHANGED <<disk, steps, jobs, msgs>>

NextClock == SecondsUntil

SpecClock == InitClock /\ [][NextClock]_vars

---------------------------------------------------------------------------
(* The claims. *)

\* the instants the loop has to serve: 06:00 and 18:00 of every day
DailyInstants == {At(d, h, 0) : d \in 0..(LastDay + 1), h \in {6, 18}}

\* the chats a daily broadcast goes to
Recipients == Range(users) \cup Range(groups)

\* the clock time of a token, in minutes of the day
ClockOf(t) == TokHour(t) * 60 + TokMin(t)

\* C1: with auto_switch_on_monday and send_6am true, the loop flips the persisted
\* current_week exactly once on a Monday (the 06:00 branch running on a Monday
\* flips and persists it, no second wake of that Monday flips it again) and
\* never on another day.
C1_MondayFlipOnce ==
  (settings.auto_switch_on_monday /\ settings.send_6am) =>
    /\ \A i \in 1..Len(flipLog) : flipLog[i] % 7 = 0
    /\ \A i, j \in 1..Len(flipLog) : i # j => flipLog[i] # flipLog[j]
    /\ (last.op = "morning" /\ Weekday(last.at) = 0) =>
         /\ last.after = Other(last.before)
         /\ settings.current_week = last.after
         /\ disk_week = last.after

C3_PreviewKeepsVariant ==
  last.op \in {"evening", "ertaga", "grp_ertaga"} =>
    /\ settings.current_week = last.before
    /\ disk_week = last.before
    /\ last.week = IF settings.auto_switch_on_monday /\ Weekday(last.at + MinPerDay) = 0
                   THEN Other(last.before) ELSE last.before
    /\ last.day = DayName(last.at + MinPerDay)

\* C3's case: the Sunday 18:00 broadcast rendering Monday with the opposite variant
C3_Witness ==
  /\ last.op = "evening" /\ Weekday(last.at) = 6 /\ settings.auto_switch_on_monday
  /\ last.day = "Monday" /\ last.week = Other(settings.current_week)
  /\ last.text.kind = "table"

\* C4: once the Sunday 18:00 broadcast has previewed the flipped variant V for
\* Monday (auto_switch_on_monday true) and the wake for Monday 06:00 has run,
\* with no admin toggle in between, current_week is V on that Monday, and what
\* the morning broadcast and /bugun show for Monday is V.
C4_PreviewIsMondaysVariant ==
  (/\ preview # NoPreview
   /\ served = At(preview.monday, 6, 0)
   /\ DayOf(now) = preview.monday) =>
    /\ settings.current_week = preview.v
    /\ disk_week = preview.v
    /\ last.op \in {"morning", "bugun"} => last.week = preview.v

\* C5: for every day and lesson time at most one countdown is armed, and it
\* fires once: no subscriber gets two reminders for one lesson time of one day.
C5_OneReminderPerLesson ==
  /\ \A i, j \in 1..Len(armLog) : i # j => armLog[i] # armLog[j]
  /\ \A i, j \in 1..Len(fired) :
       i # j => <<fired[i].day, fired[i].t>> # <<fired[j].day, fired[j].t>>

\* C6: when exactly one recipient's delivery always fails, a morning broadcast
\* reaches every other recipient and reports attempted = the size of the
\* recipient set and succeeded = that size minus one.
C6_ReportCountsFailure ==
  (last.op = "morning" /\ Cardinality(Recipients \cap unreachable) = 1) =>
    /\ last.got_u \cup last.got_g = Recipients \ unreachable
    /\ last.report.users + last.report.groups = Cardinality(Recipients)
    /\ last.report.sent_u + last.report.sent_g = Cardinality(Recipients) - 1

\* C7: no 06:00 or 18:00 that passes while the loop runs is skipped: when the
\* loop goes to sleep, no daily instant lies between the instant whose wake step
\* it executed last and the instant it now sleeps for.
C7_NoInstantSkipped ==
  (pc \in {"sleep6", "sleep18"} /\ served >= 0) =>
    \A n \in DailyInstants : ~(served < n /\ n < wakeAt)

\* C8: no failure inside an iteration ends the loop: the loop thread is alive in
\* every state, also after save_json has raised during the Monday rotation.
C8_LoopNeverHalts == started => pc \in {"top", "sleep6", "sleep18"}

C10_DistinctAscendingTimes ==
  probe.fn = "parsed" =>
    LET out == probe.out
        found == FindAll(probe.text)
    IN /\ \A i, j \in 1..Len(out) : i < j => ClockOf(out[i]) < ClockOf(out[j])
       /\ {ClockOf(out[i]) : i \in 1..Len(out)} = {ClockOf(found[i]) : i \in 1..Len(found)}
       /\ probe.text = JoinLines(<<Lesson(T0800, <<"M">>), Lesson(T0900, <<"F">>),
                                   Lesson(T0800, <<"M">>)>>)
            => out = <<T0800, T0900>>

\* C11: for every instant now and each target (06:00, 18:00), seconds_until_target
\* is strictly positive, at most 24 hours, and is the distance to the first
\* occurrence of the target strictly after now: at or past today's target it is
\* the distance to tomorrow's.
C11_NextOccurrence ==
  probe.fn = "seconds" =>
    LET hour == probe.out[1]
        sec == probe.out[2]
        later == {d \in 0..(DayOf(now) + 1) : At(d, hour, 0) > now}
        first == CHOOSE d \in later : \A e \in later : d <= e
    IN /\ sec > 0
       /\ sec <= 24 * 3600
       /\ now * 60 + sec = At(first, hour, 0) * 60

\* C11's case: exactly at 18:00 the distance to 18:00 is a whole day, and the
\* distance to 06:00 is twelve hours (both targets of today have passed)
C11_Witness ==
  /\ probe.fn = "seconds" /\ now = At(6, 18, 0)
  /\ probe.out \in {<<18, 24 * 3600>>, <<6, 12 * 3600>>}

\* C12: a lesson reminder is never sent to a group: everyone a reminder reaches
\* is in the users list at fire time, and no chat that is only in the groups list
\* gets one.
C12_RemindersToUsersOnly ==
  /\ last.op = "reminder" =>
       /\ last.got_u \subseteq Range(users)
       /\ last.got_u \cap (Range(groups) \ Range(users)) = {}
       /\ last.got_g = {}
  /\ \A i \in 1..Len(fired) : fired[i].got \cap (Range(groups) \ Range(users)) = {}

\* C12's case: a reminder has just gone out while a group is registered
C12_Witness ==
  /\ last.op = "reminder" /\ last.got_u = {1}
  /\ Range(groups) \ Range(users) = {10}
  /\ fired # <<>>

\* the entries of xs (countdowns or reminders) for lesson time t of a day
CountOf(xs, day, t) == Cardinality({i \in 1..Len(xs) : xs[i].day = day /\ xs[i].t = t})

\* C13: an armed countdown cannot be cancelled: every countdown armed today is
\* still pending or has fired, a pending one is never overdue, one that fired did
\* so at its instant; and when it fires after today's text was overwritten so
\* that no line contains the lesson time, the generic message goes to the
\* subscribers.
C13_ArmedAlwaysFires ==
  /\ \A k \in 1..Len(armLog) :
       CountOf(armLog, armLog[k].day, armLog[k].t)
         = CountOf(timers, armLog[k].day, armLog[k].t)
             + CountOf(fired, armLog[k].day, armLog[k].t)
  /\ \A i \in 1..Len(timers) : timers[i].fireAt >= now
  /\ \A i \in 1..Len(fired) : fired[i].at = fired[i].fireAt
  /\ last.op = "reminder" =>
       LET f == fired[Len(fired)]
           lines == SplitLines(GetDay(schedules, settings.current_week, DayName(now), <<>>))
       IN (\A i \in 1..Len(lines) : ~Contains(lines[i], f.t)) =>
            /\ f.generic
            /\ f.got = Range(users) \ unreachable

\* C13's case: the 08:00 reminder armed at startup fires at 07:45 after an admin
\* has overwritten Monday's text with one that has no 08:00 line
C13_Witness ==
  /\ last.op = "reminder" /\ now = At(7, 7, 45)
  /\ fired # <<>> /\ fired[Len(fired)].t = T0800 /\ fired[Len(fired)].generic
  /\ fired[Len(fired)].got = {1}
  /\ GetDay(schedules, settings.current_week, "Monday", <<>>) \in {Strip(x) : x \in SaveTexts}
  /\ CountOf(armLog, 7, T0800) = 1

\* C14: arming is per lesson: when the date-time of one extracted token cannot
\* be built (25:99, 08:70), no countdown is armed for that token and one is armed
\* for every other extracted time whose reminder instant is in the future.
C14_ArmingIsolated ==
  (last.op \in {"startup", "morning"}
     /\ \E k \in 1..Len(last.times) : ~TokValid(last.times[k])) =>
    \A k \in 1..Len(last.times) :
      LET t == last.times[k]
          isArmed == \E i \in 1..Len(last.armed) : last.armed[i].t = t
      IN IF TokValid(t)
         THEN (At(DayOf(last.at), TokHour(t), TokMin(t)) - last.lead > last.at) => isArmed
         ELSE ~isArmed

\* C14's case: Monday's text has 08:70 and 25:99; at 08:10 with lead 15 the
\* countdowns for 09:00 and 10:30 are armed all the same
C14_Witness ==
  /\ last.op = "startup" /\ last.at = At(7, 8, 10) /\ last.lead = 15
  /\ last.times = <<T0870, T0900, T1030, T2599>>
  /\ Len(last.armed) = 2
  /\ last.armed[1].t = T0900 /\ last.armed[2].t = T1030

\* how often x occurs in the list xs
Occurrences(xs, x) == Cardinality({i \in 1..Len(xs) : xs[i] = x})

\* C15: a /start in a private chat that is not yet in users adds exactly one
\* entry for it and makes two sends (welcome, today's schedule); a /start from a
\* chat that is already in users adds nothing (and makes the two sends).
C15_StartRegistersOnce ==
  [][LET c == last'.chat
         finished == last'.op = "handle_start" /\ ChatType(c) = "private"
         atOnce == finished /\ msgs' = msgs + 1 /\ jobs' = jobs
         appended == finished /\ Len(jobs') < Len(jobs)
         begun == msgs' = msgs + 1 /\ Len(jobs') > Len(jobs)
     IN /\ atOnce =>
             /\ Occurrences(users, c) > 0
             /\ users' = users
             /\ last'.added = 0 /\ last'.sends = 2
        /\ (appended /\ Occurrences(users, c) = 0) =>
             /\ users' = Append(users, c)
             /\ Occurrences(users', c) = 1
             /\ last'.added = 1 /\ last'.sends = 2
        /\ (begun /\ jobs'[Len(jobs')].fn = "handle_start"
               /\ ChatType(jobs'[Len(jobs')].chat) = "private") =>
             Occurrences(users, jobs'[Len(jobs')].chat) = 0
        /\ (atOnce \/ appended) => groups' = groups
    ]_vars

\* C15's case: chat 1 has sent /start twice, one after the other: one entry, and
\* the second handler added nothing
C15_Witness ==
  /\ last.op = "handle_start" /\ last.chat = 1 /\ last.added = 0 /\ last.sends = 2
  /\ users = <<1>> /\ jobs = <<>> /\ msgs = 2

\* C16: after any interleaving of /start and bot-added-to-group events no
\* identifier is more than once in users and none more than once in groups.
C16_RegistryHasNoDuplicates ==
  /\ \A i, j \in 1..Len(users) : i # j => users[i] # users[j]
  /\ \A i, j \in 1..Len(groups) : i # j => groups[i] # groups[j]

\* C17: delivery never changes the registry: a morning or evening broadcast, a
\* reminder and an admin broadcast leave users and groups as they were, whether
\* or not every delivery succeeded, and no step of the program takes an
\* identifier out of users.
C17_DeliveryKeepsRegistry ==
  [][/\ (\/ Len(fired') > Len(fired)
          \/ (served' # served /\ last'.op \in {"morning", "evening"})
          \/ (msgs' = msgs + 1 /\ last'.op = "admin_broadcast_send")) =>
            (users' = users /\ groups' = groups)
     /\ \A u \in Range(users) : Occurrences(users', u) >= Occurrences(users, u)
    ]_vars

\* C17's case: an admin broadcast has gone out, the delivery to subscriber 2
\* failed, and 2 is still registered
C17_Witness ==
  /\ last.op = "admin_broadcast_send" /\ last.reply = "count"
  /\ last.got_u = {1} /\ unreachable = {2}
  /\ users = <<1, 2>>

---------------------------------------------------------------------------
\* C18: a toggle of the variant (admin_switch_week, or the Monday rotation of
\* the 06:00 branch) leaves current_week at the one of tepa/pastgi it was not
\* at, in memory and in settings.json; a toggle that directly follows a toggle
\* leaves current_week where it was before the first of the two.
C18_ToggleIsInvolution ==
  [][LET toggle == toggles' = toggles + 1 \/ Len(flipLog') = Len(flipLog) + 1
         follows == last.op \in {"toggle", "morning"} /\ last.after # last.before
     IN toggle =>
          /\ settings'.current_week \in Weeks
          /\ settings'.current_week # settings.current_week
          /\ disk_week' = settings'.current_week
          /\ follows => settings'.current_week = last.before
    ]_vars

\* the Monday rotation and then an admin's toggle, at the same instant
C18_Witness ==
  /\ last.op = "toggle" /\ toggles = 1
  /\ flipLog = <<DayOf(now)>> /\ served = now
  /\ last.after = settings.current_week /\ disk_week = settings.current_week

---------------------------------------------------------------------------
\* C19: a step that changes schedules, current_week or the admin list is the
\* handling of a message whose sender was, before the step, listed in
\* settings.admins or a chat administrator of the registered group the message
\* was written in; this holds for the entry handlers and for every next-step
\* handler of the admin flows.
C19_OnlyAdminsMutate ==
  [][(\/ schedules' # schedules
      \/ settings'.current_week # settings.current_week
      \/ settings'.admins # settings.admins) =>
        /\ last'.by # 0
        /\ \/ \E i \in 1..Len(settings.admins) : settings.admins[i] = last'.by
           \/ /\ \E i \in 1..Len(groups) : groups[i] = last'.chat
              /\ last'.by \in ChatAdministrators(last'.chat)
    ]_vars

\* a group's administrator went through the week and the day of the edit flow,
\* then a plain member of the group wrote the text: the save step turned it
\* away and the schedules are the ones the process loaded
C19_Witness ==
  /\ last.op = "admin_save_day" /\ last.reply = ""
  /\ last.chat = 10 /\ last.by = 1
  /\ steps[10] = NoStep /\ msgs = 3
  /\ schedules = disk.schedules

---------------------------------------------------------------------------
\* C20: when an admin's text in the admin-ID step is not a number (white space
\* trimmed, an optional sign, then decimal digits only), or an admin's text in
\* the day-choice step is neither a weekday button nor the back button, the
\* admin gets the error reply, no next-step handler is left for the chat, and
\* schedules, settings and the two saved documents are as before.
C20_MalformedInputMutatesNothing ==
  [][LET m == last'
         t == Strip(m.input)
         d == IF t # <<>> /\ t[1] \in {"+", "-"} THEN Tail(t) ELSE t
         numeric == d # <<>> /\ \A i \in 1..Len(d) : IsDigit(d[i])
         admin == \/ \E i \in 1..Len(settings.admins) : settings.admins[i] = m.by
                  \/ /\ \E i \in 1..Len(groups) : groups[i] = m.chat
                     /\ m.by \in ChatAdministrators(m.chat)
         malformed == \/ m.op = "admin_manage_admins_step" /\ ~numeric
                      \/ /\ m.op = "admin_edit_day_step"
                         /\ m.input # BtnBack /\ ~InUzBtn(m.input)
     IN (msgs' = msgs + 1 /\ admin /\ malformed) =>
          /\ m.reply = "error"
          /\ steps'[m.chat] = NoStep
          /\ schedules' = schedules /\ settings' = settings
          /\ disk' = disk /\ disk_week' = disk_week
    ]_vars

---------------------------------------------------------------------------
\* C21: whenever handle_ertaga or the grp_ertaga callback renders tomorrow, the
\* variant and the weekday it renders are the ones send_daily_evening computes
\* at the same instant under the same settings.
C21_ErtagaMatchesEvening ==
  [][last'.op \in {"ertaga", "grp_ertaga"} /\ last' # last =>
       LET e == send_daily_evening(now, settings, schedules, users, groups, unreachable)
       IN /\ last'.week = e.week
          /\ last'.day = e.day
    ]_vars

\* /ertaga on a Sunday with the rotation on: Monday in the other variant
C21_Witness ==
  /\ last.op = "ertaga"
  /\ settings.auto_switch_on_monday /\ Weekday(now) = 6
  /\ last.day = "Monday" /\ last.week # settings.current_week

---------------------------------------------------------------------------
\* C22: a payload that is none of nav:<weekday>:<variant>, nav:weekly:<variant>,
\* nav:noop, grp_bugun:<weekday>, grp_ertaga:<weekday> is ignored by
\* callback_handler: nothing is sent or edited, no exception is raised, and
\* no state changes.
C22_UnknownPayloadIgnored ==
  [][LET data == last'.input
         day(i) == Len(data) >= i /\ data[i] \in Range(Days)
         variant(i) == Len(data) >= i /\ data[i] \in Weeks
         recognized ==
           \/ data = <<"nav", ":", "noop">>
           \/ Len(data) = 5 /\ StartsWith(data, "nav") /\ data[4] = ":" /\ variant(5)
                /\ (day(3) \/ data[3] = "weekly")
           \/ Len(data) = 3 /\ day(3)
                /\ (StartsWith(data, "grp_bugun") \/ StartsWith(data, "grp_ertaga"))
     IN (last'.op = "callback" /\ last' # last /\ ~recognized) =>
          /\ last'.reply = "ignored"
          /\ schedules' = schedules /\ settings' = settings
          /\ users' = users /\ groups' = groups
          /\ disk' = disk /\ disk_week' = disk_week
    ]_vars

---------------------------------------------------------------------------
\* C23: whenever the process runs, no handler is in progress and no write has
\* failed, each persisted document equals its value in memory, also when
\* mutating handlers have run concurrently.
C23_DiskEqualsMemory ==
  (started /\ jobs = <<>> /\ disk_ok) =>
    /\ disk.users = users
    /\ disk.groups = groups
    /\ disk.schedules = schedules
    /\ disk.admins = settings.admins
    /\ disk_week = settings.current_week

---------------------------------------------------------------------------
\* C24: for a weekday other than Sunday that has no entry, or an empty entry,
\* in the requested variant's table, pretty_schedule_text returns the
\* 'not found' message for that day, never an empty text.
C24_MissingDayNotFound ==
  (/\ last.op = "day" /\ last.day # "Sunday"
   /\ \/ last.week \notin DOMAIN schedules
      \/ last.day \notin DOMAIN schedules[last.week]
      \/ schedules[last.week][last.day] = <<>>) =>
    last.text = [NoText EXCEPT !.kind = "notfound", !.day = last.day]

\* the button of a day whose entry is the empty string
C24_Witness ==
  /\ last.op = "day" /\ last.day = "Tuesday" /\ last.week = "pastgi"
  /\ "Tuesday" \in DOMAIN schedules["pastgi"]
  /\ schedules["pastgi"]["Tuesday"] = <<>>
  /\ last.text.kind = "notfound"

\* C25: for Sunday pretty_schedule_text returns the one fixed rest message,
\* whatever the variant and whatever the schedule tables hold, a Sunday entry
\* included.
C25_SundayIsRest ==
  (last.op = "day" /\ last.day = "Sunday") =>
    last.text = [NoText EXCEPT !.kind = "rest"]

\* the Sunday button pressed while the current variant's table has a Sunday
\* entry
C25_Witness ==
  /\ last.op = "day" /\ last.day = "Sunday"
  /\ last.week \in DOMAIN schedules
  /\ "Sunday" \in DOMAIN schedules[last.week]
  /\ schedules[last.week]["Sunday"] # <<>>
  /\ last.text.kind = "rest"

---------------------------------------------------------------------------
\* C26: when the reminder for lesson time t fires, the subject comes from the
\* day text of the current variant and weekday as it is at that moment: if the
\* text has a line whose lesson time is t, the reminder names what follows the
\* dash of that line, and the generic message is sent only if no line contains
\* t.
C26_SubjectAtFireTime ==
  [][Len(fired') = Len(fired) + 1 =>
       LET f == fired'[Len(fired')]
           lines == SplitLines(GetDay(schedules, settings.current_week, DayName(now), <<>>))
           lesson == {i \in 1..Len(lines) :
                        FindAll(lines[i]) # <<>> /\ FindAll(lines[i])[1] = f.t}
           first == CHOOSE i \in lesson : \A j \in lesson : i <= j
           dash == FirstOf(lines[first], "-")
       IN /\ (lesson # {} /\ dash # 0) =>
               f.subject = Strip(SubSeq(lines[first], dash + 1, Len(lines[first])))
          /\ f.generic => \A i \in 1..Len(lines) : ~Contains(lines[i], f.t)
    ]_vars

---------------------------------------------------------------------------
\* C27: after an admin has sent the delete button and then a week button, the
\* button of a weekday that has an entry in that variant removes that entry
\* from the variant's table and rewrites the schedule document; every other
\* entry stays as it is.
C27_DeleteFlowRemovesDay ==
  [][LET week == IF last.input = BtnTepa THEN "tepa" ELSE "pastgi"
         day == UZ_BTN_TO_EN(last'.input)
         admin == \/ \E i \in 1..Len(settings.admins) : settings.admins[i] = last'.by
                  \/ /\ \E i \in 1..Len(groups) : groups[i] = last'.chat
                     /\ last'.by \in ChatAdministrators(last'.chat)
     IN (/\ last.asked = "delete" /\ last.input \in {BtnTepa, BtnPastgi}
         /\ msgs' = msgs + 1 /\ last'.chat = last.chat /\ admin
         /\ InUzBtn(last'.input)
         /\ day \in DOMAIN schedules[week]) =>
          /\ schedules' = WithoutDay(schedules, week, day)
          /\ disk'.schedules = schedules'
    ]_vars

---------------------------------------------------------------------------
\* C28: on_left for group g leaves groups without g and groups.json equal to
\* groups; a broadcast sends to no group that is not in groups when it starts;
\* and g comes into groups only through /start in g or a join event of g.  So
\* no broadcast after on_left reaches g until g is registered again.
C28_LeftGroupGetsNothing ==
  [][/\ (last'.op = "on_left" /\ msgs' = msgs + 1) =>
          /\ \A i \in 1..Len(groups') : groups'[i] # last'.chat
          /\ disk'.groups = groups'
     /\ (served' # served /\ last'.op \in {"morning", "evening"}) =>
          last'.got_g \subseteq Range(groups)
     /\ \A g \in GroupChats :
          (g \notin Range(groups) /\ g \in Range(groups')) =>
             (last'.op \in {"handle_start", "on_new_members"} /\ last'.chat = g)
    ]_vars

---------------------------------------------------------------------------
\* C29: toggles are not lost when they run at the same time: once all n
\* toggles that were started have completed, current_week is the variant the
\* process started with (tepa) flipped n times, in memory and in
\* settings.json, and it is one of tepa/pastgi.
C29_NoLostToggle ==
  (started /\ jobs = <<>>) =>
    /\ settings.current_week = (IF toggles % 2 = 0 THEN "tepa" ELSE "pastgi")
    /\ disk_week = settings.current_week

====
